---- MODULE Spec2Model ----
(***************************************************************************)
(* Model of app.py (Certis Security+ ROI sandbox): the ROI model           *)
(* compute_roi, the sensitivity sweep and the Streamlit render pass that   *)
(* wires the sidebar widgets and the preset buttons to them.               *)
(*                                                                         *)
(* Numbers.  The program computes in Python numbers.  The model computes   *)
(* in exact rational arithmetic: a number is a pair <<n, d>> in lowest     *)
(* terms with d > 0.  Binary rounding of the doubles is not modelled.  A   *)
(* division by zero, which raises ZeroDivisionError in Python, yields the  *)
(* distinguished pair <<0, 0>>, and that value propagates.                 *)
(***************************************************************************)
EXTENDS Integers, Sequences, FiniteSets, TLC

VARIABLES widgets, pressed, scenario, results, opt, steps, rows

vars == <<widgets, pressed, scenario, results, opt, steps, rows>>

---------------------------------------------------------------------------
(* Exact arithmetic                                                        *)

Abs(n) == IF n < 0 THEN -n ELSE n

RECURSIVE GCD(_, _)
GCD(a, b) == IF b = 0 THEN a ELSE GCD(b, a % b)

ZeroDivisionError == <<0, 0>>

IsErr(x) == x[2] = 0

\* the number n/d (d # 0) in lowest terms with a positive denominator
Rat(n, d) ==
    LET g == GCD(Abs(n), Abs(d))
        s == IF d < 0 THEN -1 ELSE 1
    IN  <<s * (n \div g), Abs(d) \div g>>

Num(n) == <<n, 1>>

Pct(n) == Rat(n, 100)

RAdd(x, y) ==
    IF IsErr(x) \/ IsErr(y) THEN ZeroDivisionError
    ELSE LET g == GCD(x[2], y[2])
         IN  Rat(x[1] * (y[2] \div g) + y[1] * (x[2] \div g), (x[2] \div g) * y[2])

RNeg(x) == <<-x[1], x[2]>>

RSub(x, y) == RAdd(x, RNeg(y))

RMul(x, y) ==
    IF IsErr(x) \/ IsErr(y) THEN ZeroDivisionError
    ELSE LET g1 == GCD(Abs(x[1]), y[2])
             g2 == GCD(Abs(y[1]), x[2])
         IN  <<(x[1] \div g1) * (y[1] \div g2), (x[2] \div g2) * (y[2] \div g1)>>

RDiv(x, y) ==
    IF IsErr(x) \/ IsErr(y) \/ y[1] = 0 THEN ZeroDivisionError
    ELSE RMul(x, Rat(y[2], y[1]))

RLt(x, y) == x[1] * y[2] < y[1] * x[2]

RLe(x, y) == x[1] * y[2] <= y[1] * x[2]

\* Python truthiness of a number: non-zero
Truthy(x) == x[1] # 0

\* Python max(a, b): the first argument unless the second is greater
max(a, b) == IF RLt(a, b) THEN b ELSE a

---------------------------------------------------------------------------
(* compute_roi                                                             *)

labor_cost(annual_ops_cost, labor_share) == RMul(annual_ops_cost, labor_share)

non_labor(annual_ops_cost, labor_share) ==
    RMul(annual_ops_cost, RSub(Num(1), labor_share))

labor_savings(annual_ops_cost, labor_share, manpower_reduction) ==
    RMul(labor_cost(annual_ops_cost, labor_share), manpower_reduction)

new_ops_cost_noplatform(annual_ops_cost, labor_share, manpower_reduction, platform_cost) ==
    RAdd(RSub(labor_cost(annual_ops_cost, labor_share),
              labor_savings(annual_ops_cost, labor_share, manpower_reduction)),
         non_labor(annual_ops_cost, labor_share))

new_ops_cost(annual_ops_cost, labor_share, manpower_reduction, platform_cost) ==
    RAdd(RAdd(RSub(labor_cost(annual_ops_cost, labor_share),
                   labor_savings(annual_ops_cost, labor_share, manpower_reduction)),
              non_labor(annual_ops_cost, labor_share)),
         platform_cost)

savings_gross(annual_ops_cost, new_cost) ==
    RAdd(RSub(annual_ops_cost, new_cost), Num(1))

savings(annual_ops_cost, new_cost) == RSub(annual_ops_cost, new_cost)

roi_unguarded(sav, platform_cost) == RDiv(sav, platform_cost)

roi(sav, platform_cost) ==
    IF Truthy(platform_cost) THEN RDiv(sav, platform_cost) ELSE Num(0)

payback_months_noclamp(sav, platform_cost) ==
    IF RLt(Num(0), platform_cost)
    THEN RMul(Num(12), RDiv(platform_cost, sav))
    ELSE Num(0)

payback_months(sav, platform_cost) ==
    IF RLt(Num(0), platform_cost)
    THEN RMul(Num(12), RDiv(platform_cost, max(sav, Num(1))))
    ELSE Num(0)

throughput_effect(productivity_gain) == RAdd(Num(1), productivity_gain)

ResultKeys ==
    {"Baseline cost", "New cost", "Savings", "Platform cost",
     "ROI (Savings / Platform)", "Payback (months)", "Labor share",
     "Manpower reduction (%)", "Productivity gain (%)",
     "Throughput multiplier (1+prod)"}

\* the outcome of a call in which a division raised: no dict is returned
Raised == [k \in {"ZeroDivisionError"} |-> ZeroDivisionError]

\* the dict built at the end of compute_roi from the values computed before it
result_dict(annual_ops_cost, labor_share, manpower_reduction, productivity_gain, platform_cost, new, sav, r, pb) ==
    IF IsErr(r) \/ IsErr(pb) THEN Raised
    ELSE ("Baseline cost" :> annual_ops_cost)
      @@ ("New cost" :> new)
      @@ ("Savings" :> sav)
      @@ ("Platform cost" :> platform_cost)
      @@ ("ROI (Savings / Platform)" :> r)
      @@ ("Payback (months)" :> pb)
      @@ ("Labor share" :> labor_share)
      @@ ("Manpower reduction (%)" :> manpower_reduction)
      @@ ("Productivity gain (%)" :> productivity_gain)
      @@ ("Throughput multiplier (1+prod)" :> throughput_effect(productivity_gain))

\* compute_roi with the productivity gain counted as a further labour saving
compute_roi_double_counted(annual_ops_cost, labor_share, manpower_reduction, productivity_gain, platform_cost) ==
    LET new == new_ops_cost(annual_ops_cost, labor_share,
                            RAdd(manpower_reduction, productivity_gain), platform_cost)
        sav == savings(annual_ops_cost, new)
    IN  result_dict(annual_ops_cost, labor_share, manpower_reduction, productivity_gain,
                    platform_cost, new, sav, roi(sav, platform_cost),
                    payback_months(sav, platform_cost))

compute_roi(annual_ops_cost, labor_share, manpower_reduction, productivity_gain, platform_cost) ==
    LET new == new_ops_cost(annual_ops_cost, labor_share, manpower_reduction, platform_cost)
        sav == savings(annual_ops_cost, new)
        r   == roi(sav, platform_cost)
        pb  == payback_months(sav, platform_cost)
    IN  result_dict(annual_ops_cost, labor_share, manpower_reduction, productivity_gain,
                    platform_cost, new, sav, r, pb)

---------------------------------------------------------------------------
(* Sensitivity sweep                                                       *)

\* Python range(start, stop, step) for step > 0, as a sequence
RECURSIVE range(_, _, _)
range(start, stop, step) ==
    IF start >= stop THEN <<>>
    ELSE <<start>> \o range(start + step, stop, step)

\* int(40/(steps-1)): true division of two positive integers, truncated
int_40_over(n) == 40 \div n

IntMax(a, b) == IF b > a THEN b ELSE a

stride(n) == IntMax(1, int_40_over(n - 1))

lever_points_exclusive(n) == range(0, 40, stride(n))

\* list(range(0, 41, max(1, int(40/(steps-1))))): integer percentage points
lever_points(n) == range(0, 41, stride(n))

\* xs = [i / 100 for i in ...]
lever_values(n) ==
    LET points == lever_points(n)
    IN  [k \in 1..Len(points) |-> Rat(points[k], 100)]

ManpowerLever == "Manpower reduction (%)"

ProductivityLever == "Productivity gain (%)"

Levers == {ManpowerLever, ProductivityLever}

\* one loop iteration: r = compute_roi(...); r["x"] = lever value
sweep_row(base, lever, x) ==
    IF lever = ManpowerLever
    THEN compute_roi(base.annual_ops_cost, base.labor_share, x,
                     base.productivity_gain, base.platform_cost) @@ ("x" :> x)
    ELSE compute_roi(base.annual_ops_cost, base.labor_share, base.manpower_reduction,
                     x, base.platform_cost) @@ ("x" :> x)

\* rows after the for loop over xs
sweep(base, lever, n) ==
    LET xs == lever_values(n)
    IN  [k \in 1..Len(xs) |-> sweep_row(base, lever, xs[k])]

Compute(s) ==
    compute_roi(s.annual_ops_cost, s.labor_share, s.manpower_reduction,
                s.productivity_gain, s.platform_cost)

Scenario(a, l, m, p, c) ==
    [annual_ops_cost |-> a, labor_share |-> l, manpower_reduction |-> m,
     productivity_gain |-> p, platform_cost |-> c]

---------------------------------------------------------------------------
(* The page: one action is one run of the script from top to bottom        *)

NoButton == "none"

Mall == "Mall / Jewel-ish"

Precinct == "Precinct / JTC-ish"

\* values each widget can be set to (samples of the widget's range)
AnnualOpsCostChoices == {Num(500000), Num(5000000)}

LaborShareChoices == {Pct(30), Pct(80)}

ManpowerReductionChoices == {Pct(20), Pct(50)}

ProductivityGainChoices == {Pct(0), Pct(25)}

PlatformCostChoices == {Num(100000), Num(600000)}

StepsChoices == {5, 7, 15, 30}

DefaultWidgets == Scenario(Num(5000000), Pct(80), Pct(20), Pct(25), Num(600000))

DefaultSteps == 15

\* the sidebar block with the preset assignments dropped
sidebar_presets_ignored(w, btn) == w

\* the script's local variables at the end of the sidebar block
sidebar(w, btn) ==
    IF btn = Mall
    THEN Scenario(w.annual_ops_cost, Pct(80), Pct(20), Pct(25), Num(600000))
    ELSE IF btn = Precinct
    THEN Scenario(w.annual_ops_cost, Pct(78), Pct(18), Pct(25), Num(750000))
    ELSE w

\* a script run with widget state w, button btn clicked, lever o and n steps
Rerun(w, btn, o, n) ==
    /\ widgets' = w
    /\ pressed' = btn
    /\ scenario' = sidebar(w, btn)
    /\ results' = Compute(sidebar(w, btn))
    /\ opt' = o
    /\ steps' = n
    /\ rows' = sweep(sidebar(w, btn), o, n)

Init ==
    /\ widgets = DefaultWidgets
    /\ pressed = NoButton
    /\ scenario = sidebar(DefaultWidgets, NoButton)
    /\ results = Compute(sidebar(DefaultWidgets, NoButton))
    /\ opt = ManpowerLever
    /\ steps = DefaultSteps
    /\ rows = sweep(sidebar(DefaultWidgets, NoButton), ManpowerLever, DefaultSteps)

SetAnnualOpsCost ==
    \E v \in AnnualOpsCostChoices \ {widgets.annual_ops_cost} :
        Rerun([widgets EXCEPT !.annual_ops_cost = v], NoButton, opt, steps)

SetLaborShare ==
    \E v \in LaborShareChoices \ {widgets.labor_share} :
        Rerun([widgets EXCEPT !.labor_share = v], NoButton, opt, steps)

SetManpowerReduction ==
    \E v \in ManpowerReductionChoices \ {widgets.manpower_reduction} :
        Rerun([widgets EXCEPT !.manpower_reduction = v], NoButton, opt, steps)

SetProductivityGain ==
    \E v \in ProductivityGainChoices \ {widgets.productivity_gain} :
        Rerun([widgets EXCEPT !.productivity_gain = v], NoButton, opt, steps)

SetPlatformCost ==
    \E v \in PlatformCostChoices \ {widgets.platform_cost} :
        Rerun([widgets EXCEPT !.platform_cost = v], NoButton, opt, steps)

PressMall == Rerun(widgets, Mall, opt, steps)

PressPrecinct == Rerun(widgets, Precinct, opt, steps)

SelectLever ==
    \E o \in Levers \ {opt} : Rerun(widgets, NoButton, o, steps)

SetSteps ==
    \E n \in StepsChoices \ {steps} : Rerun(widgets, NoButton, opt, n)

Next ==
    \/ SetAnnualOpsCost
    \/ SetLaborShare
    \/ SetManpowerReduction
    \/ SetProductivityGain
    \/ SetPlatformCost
    \/ PressMall
    \/ PressPrecinct
    \/ SelectLever
    \/ SetSteps

Spec == Init /\ [][Next]_vars

---------------------------------------------------------------------------
(* compute_roi called directly, on arguments of any sign                   *)

MaxPlatform == 6

FnAnnualOpsCosts == {Num(-100), Num(0), Num(10), Num(100)}

FnLaborShares == {Pct(-10), Pct(0), Pct(30), Pct(50), Pct(100), Pct(150)}

FnManpowerReductions == {Pct(-10), Pct(0), Pct(10), Pct(50), Pct(100)}

FnProductivityGains == {Pct(-25), Pct(0), Pct(25)}

FnPlatformCosts == {Num(k) : k \in (-MaxPlatform)..MaxPlatform}

FnCall(s) ==
    /\ scenario' = s
    /\ results' = Compute(s)
    /\ UNCHANGED <<widgets, pressed, opt, steps, rows>>

FnInit ==
    /\ widgets = DefaultWidgets
    /\ pressed = NoButton
    /\ scenario \in {Scenario(a, l, m, p, c) :
                        a \in FnAnnualOpsCosts, l \in FnLaborShares,
                        m \in FnManpowerReductions, p \in FnProductivityGains,
                        c \in {Num(0), Num(1)}}
    /\ results = Compute(scenario)
    /\ opt = ManpowerLever
    /\ steps = DefaultSteps
    /\ rows = <<>>

FnVaryAnnualOpsCost ==
    \E v \in FnAnnualOpsCosts : FnCall([scenario EXCEPT !.annual_ops_cost = v])

FnVaryLaborShare ==
    \E v \in FnLaborShares : FnCall([scenario EXCEPT !.labor_share = v])

FnVaryManpowerReduction ==
    \E v \in FnManpowerReductions : FnCall([scenario EXCEPT !.manpower_reduction = v])

FnVaryProductivityGain ==
    \E v \in FnProductivityGains : FnCall([scenario EXCEPT !.productivity_gain = v])

FnVaryPlatformCost ==
    \E v \in FnPlatformCosts : FnCall([scenario EXCEPT !.platform_cost = v])

FnNext ==
    \/ FnVaryAnnualOpsCost
    \/ FnVaryLaborShare
    \/ FnVaryManpowerReduction
    \/ FnVaryProductivityGain
    \/ FnVaryPlatformCost

SpecFn == FnInit /\ [][FnNext]_vars

---------------------------------------------------------------------------
(* The sweep called directly, for every step count from 2                  *)

MaxSteps == 45

SweepBases ==
    {Scenario(Num(5000000), Pct(80), Pct(20), Pct(25), Num(600000)),
     Scenario(Num(5000000), Pct(78), Pct(18), Pct(0), Num(750000))}

SweepCall(base, lever, n) ==
    /\ scenario' = base
    /\ results' = Compute(base)
    /\ opt' = lever
    /\ steps' = n
    /\ rows' = sweep(base, lever, n)
    /\ UNCHANGED <<widgets, pressed>>

SweepInit ==
    /\ widgets = DefaultWidgets
    /\ pressed = NoButton
    /\ scenario \in SweepBases
    /\ results = Compute(scenario)
    /\ opt \in Levers
    /\ steps = 2
    /\ rows = sweep(scenario, opt, steps)

SweepMoreSteps ==
    /\ steps < MaxSteps
    /\ SweepCall(scenario, opt, steps + 1)

SweepOtherLever ==
    \E o \in Levers \ {opt} : SweepCall(scenario, o, steps)

SweepOtherBase ==
    \E b \in SweepBases \ {scenario} : SweepCall(b, opt, steps)

SweepNext ==
    \/ SweepMoreSteps
    \/ SweepOtherLever
    \/ SweepOtherBase

SpecSweep == SweepInit /\ [][SweepNext]_vars

---------------------------------------------------------------------------
(* Claims                                                                  *)

IsResult(r) == DOMAIN r = ResultKeys /\ \A k \in ResultKeys : ~IsErr(r[k])

C1_Scenario == Scenario(Num(5000000), Pct(80), Pct(20), Pct(25), Num(600000))

C1_Intermediate ==
    /\ labor_cost(scenario.annual_ops_cost, scenario.labor_share) = Num(4000000)
    /\ non_labor(scenario.annual_ops_cost, scenario.labor_share) = Num(1000000)
    /\ labor_savings(scenario.annual_ops_cost, scenario.labor_share,
                     scenario.manpower_reduction) = Num(800000)
    /\ results["Throughput multiplier (1+prod)"] = Rat(5, 4)

\* C1 as stated: the default scenario yields New cost 3,800,000, Savings
\* 1,200,000, ROI 2.0 and payback 6.0 months.
C1_Original ==
    scenario = C1_Scenario =>
        /\ IsResult(results)
        /\ C1_Intermediate
        /\ results["New cost"] = Num(3800000)
        /\ results["Savings"] = Num(1200000)
        /\ results["ROI (Savings / Platform)"] = Num(2)
        /\ results["Payback (months)"] = Num(6)

\* C1 (amended): for annual_ops_cost 5,000,000, labor_share 0.80,
\* manpower_reduction 0.20, productivity_gain 0.25, platform_cost 600,000,
\* compute_roi yields labor_cost 4,000,000, non_labor 1,000,000,
\* labor_savings 800,000, New cost 4,800,000 (platform cost included),
\* Savings 200,000, ROI 1/3, payback 36 months, throughput multiplier 1.25.
C1_DefaultScenario ==
    scenario = C1_Scenario =>
        /\ IsResult(results)
        /\ C1_Intermediate
        /\ results["New cost"] = Num(4800000)
        /\ results["Savings"] = Num(200000)
        /\ results["ROI (Savings / Platform)"] = Rat(1, 3)
        /\ results["Payback (months)"] = Num(36)

C1_Witness ==
    /\ scenario = C1_Scenario
    /\ pressed = Mall
    /\ widgets # C1_Scenario
    /\ IsResult(results)

C2_Scenario == Scenario(Num(5000000), Pct(78), Pct(18), Pct(25), Num(750000))

C2_Intermediate ==
    /\ labor_cost(scenario.annual_ops_cost, scenario.labor_share) = Num(3900000)
    /\ labor_savings(scenario.annual_ops_cost, scenario.labor_share,
                     scenario.manpower_reduction) = Num(702000)
    /\ non_labor(scenario.annual_ops_cost, scenario.labor_share) = Num(1100000)

\* C2 as stated: the Precinct scenario yields New cost 4,298,000, Savings
\* 702,000, ROI about 0.936 (0.9355..0.9365) and payback about 12.82 months
\* (12.815..12.825).
C2_Original ==
    scenario = C2_Scenario =>
        /\ IsResult(results)
        /\ C2_Intermediate
        /\ results["New cost"] = Num(4298000)
        /\ results["Savings"] = Num(702000)
        /\ RLe(Rat(9355, 10000), results["ROI (Savings / Platform)"])
        /\ RLe(results["ROI (Savings / Platform)"], Rat(9365, 10000))
        /\ RLe(Rat(12815, 1000), results["Payback (months)"])
        /\ RLe(results["Payback (months)"], Rat(12825, 1000))

\* C2 (amended): for annual_ops_cost 5,000,000, labor_share 0.78,
\* manpower_reduction 0.18, productivity_gain 0.25, platform_cost 750,000,
\* compute_roi yields labor_cost 3,900,000, labor_savings 702,000, non_labor
\* 1,100,000, New cost 5,048,000 (platform cost included), Savings -48,000,
\* ROI -0.064, and, the payback divisor being clamped to 1, payback
\* 12 * 750,000 = 9,000,000 months.
C2_PrecinctScenario ==
    scenario = C2_Scenario =>
        /\ IsResult(results)
        /\ C2_Intermediate
        /\ results["New cost"] = Num(5048000)
        /\ results["Savings"] = Num(-48000)
        /\ results["ROI (Savings / Platform)"] = Rat(-64, 1000)
        /\ results["Payback (months)"] = Num(9000000)

C2_Witness ==
    /\ scenario = C2_Scenario
    /\ pressed = Precinct
    /\ IsResult(results)

\* C3: for every scenario New cost + Savings = Baseline cost, and New cost
\* includes the platform cost: New cost - Platform cost is the baseline less
\* the labour saving, annual_ops_cost * (1 - labor_share * manpower_reduction).
C3_NewCostPlusSavingsIsBaseline ==
    IsResult(results) =>
        /\ RAdd(results["New cost"], results["Savings"]) = results["Baseline cost"]
        /\ results["Baseline cost"] = scenario.annual_ops_cost
        /\ RSub(results["New cost"], results["Platform cost"])
             = RMul(scenario.annual_ops_cost,
                    RSub(Num(1), RMul(scenario.labor_share, scenario.manpower_reduction)))

C3_Witness ==
    /\ IsResult(results)
    /\ results["Platform cost"] = Num(3)
    /\ results["Savings"] = Num(2)
    /\ results["New cost"] = Num(98)

\* C4: with platform_cost > 0 and savings <= 1 (zero and negative included)
\* the payback is 12 * platform_cost.
C4_PaybackClamp ==
    (RLt(Num(0), scenario.platform_cost) /\ IsResult(results)
        /\ RLe(results["Savings"], Num(1)))
    => results["Payback (months)"] = RMul(Num(12), scenario.platform_cost)

C4_Witness ==
    /\ IsResult(results)
    /\ scenario.platform_cost = Num(1)
    /\ results["Savings"] = Rat(1, 2)
    /\ results["Payback (months)"] = Num(12)

\* C5: with platform_cost = 0 the ROI is 0 and the payback is 0, whatever
\* the other four inputs are.
C5_ZeroPlatformCost ==
    scenario.platform_cost = Num(0) =>
        /\ IsResult(results)
        /\ results["ROI (Savings / Platform)"] = Num(0)
        /\ results["Payback (months)"] = Num(0)

C5_Witness ==
    /\ scenario.platform_cost = Num(0)
    /\ IsResult(results)
    /\ results["Savings"] = Num(5)

\* C6: compute_roi returns a Result for every input; no division by zero
\* happens, also when the savings are exactly zero or negative or the
\* platform cost is zero or negative.
C6_NoErrorOutcome ==
    /\ results # Raised
    /\ IsResult(results)

C6_Witness ==
    /\ IsResult(results)
    /\ RLt(Num(0), scenario.platform_cost)
    /\ results["Savings"] = Num(0)
    /\ RLt(scenario.labor_share, Num(0))

\* C7 as stated: the sweep has exactly `steps` rows, the first at lever
\* value 0.00 and the last at 0.40.
C7_StepsPointsCoverDomain ==
    /\ Len(rows) = steps
    /\ rows[1]["x"] = Num(0)
    /\ rows[Len(rows)]["x"] = Rat(40, 100)

C8_s == IF steps - 1 > 40 THEN 1 ELSE 40 \div (steps - 1)

\* C8: with s = max(1, floor(40/(steps-1))) the lever values are k*s/100 for
\* k = 0..floor(40/s), strictly ascending, the first 0, the last <= 0.40,
\* floor(40/s) + 1 of them, and the same on a second run of the sweep.
C8_StrideSampledPoints ==
    /\ Len(rows) = (40 \div C8_s) + 1
    /\ \A k \in 1..Len(rows) : rows[k]["x"] = Rat((k - 1) * C8_s, 100)
    /\ \A k \in 1..(Len(rows) - 1) : RLt(rows[k]["x"], rows[k + 1]["x"])
    /\ rows[1]["x"] = Num(0)
    /\ RLe(rows[Len(rows)]["x"], Rat(40, 100))
    /\ \A k \in 1..Len(rows) : IsResult([key \in ResultKeys |-> rows[k][key]])
    /\ rows = sweep(scenario, opt, steps)

C8_Witness ==
    /\ steps = 7
    /\ Len(rows) = 7
    /\ rows[7]["x"] = Rat(36, 100)

ChartedKeys == {"New cost", "Savings", "ROI (Savings / Platform)", "Payback (months)"}

\* C9: the productivity gain is not fed back into cost: every row of a
\* productivity-gain sweep has the New cost, Savings, ROI and payback of the
\* base scenario, whose productivity gain differs; only the echoed gain and
\* the throughput multiplier 1 + gain differ.
C9_ProductivityNotFedBack ==
    opt = ProductivityLever =>
        \A k \in 1..Len(rows) :
            /\ \A key \in ChartedKeys : rows[k][key] = results[key]
            /\ rows[k]["Productivity gain (%)"] = rows[k]["x"]
            /\ rows[k]["Throughput multiplier (1+prod)"] = RAdd(Num(1), rows[k]["x"])
            /\ \A j \in 1..Len(rows) :
                   \A key \in ResultKeys \ {"Productivity gain (%)",
                                            "Throughput multiplier (1+prod)"} :
                       rows[j][key] = rows[k][key]

C9_Witness ==
    /\ opt = ProductivityLever
    /\ Len(rows) = 41
    /\ rows[41]["x"] = Rat(40, 100)
    /\ scenario.productivity_gain = Num(0)
    /\ rows[41]["Savings"] = Num(-48000)

\* C10 as stated: a preset button is a no-op; in every pass the Result shown
\* and the base of the sweep are those of the sidebar widget values.
C10_Original ==
    /\ scenario = widgets
    /\ results = Compute(widgets)
    /\ rows = sweep(widgets, opt, steps)

\* C10 (amended): pressing a preset button leaves the widget values as they
\* are, but in the pass in which it is pressed the Result and the base of
\* the sweep are those of the preset's labor share, manpower reduction,
\* productivity gain and platform cost together with the widget's annual
\* ops cost; in every pass without a press they are those of the widgets.
C10_PresetActsForOnePass ==
    [][ /\ pressed' # NoButton => widgets' = widgets
        /\ pressed' = NoButton => scenario' = widgets'
        /\ pressed' = Mall =>
              scenario' = [annual_ops_cost |-> widgets.annual_ops_cost,
                           labor_share |-> Rat(80, 100),
                           manpower_reduction |-> Rat(20, 100),
                           productivity_gain |-> Rat(25, 100),
                           platform_cost |-> Num(600000)]
        /\ pressed' = Precinct =>
              scenario' = [annual_ops_cost |-> widgets.annual_ops_cost,
                           labor_share |-> Rat(78, 100),
                           manpower_reduction |-> Rat(18, 100),
                           productivity_gain |-> Rat(25, 100),
                           platform_cost |-> Num(750000)]
        /\ results' = Compute(scenario')
        /\ rows' = sweep(scenario', opt', steps')
      ]_vars

C10_Witness ==
    /\ pressed = Precinct
    /\ widgets.labor_share = Rat(30, 100)
    /\ widgets.platform_cost = Num(100000)
    /\ scenario.labor_share = Rat(78, 100)
    /\ results["Platform cost"] = Num(750000)

====
